---- MODULE Spec2Model ----
(***************************************************************************)
(* Model of the adaptive quiz core of math-adaptive-prototype:             *)
(*   PerformanceTracker (src/src/tracker.py): the attempt log, the streak  *)
(*     state, the windowed statistics and the session summary;             *)
(*   AdaptiveEngine (src/src/adaptive_engine.py): the difficulty level,    *)
(*     the rule table and the transition history.                          *)
(* Python floats are modelled as exact fractions <<numerator, denominator>>*)
(* in lowest terms with a positive denominator.  Every threshold the code  *)
(* compares against (0.8, 0.9, 0.4, 0.6, expected_time * 0.5/1.2/1.5/2.0)  *)
(* is a binary float that compares with the quotients sum/count of the     *)
(* integer times used here exactly as the fraction does.                   *)
(***************************************************************************)
EXTENDS Integers, Sequences, FiniteSets, TLC

VARIABLES
    attempts,            \* PerformanceTracker.attempts (the attempt log)
    current_streak,      \* PerformanceTracker.current_streak
    best_streak,         \* PerformanceTracker.best_streak
    difficulty_level,    \* AdaptiveEngine.difficulty_level (the integer)
    current_difficulty,  \* AdaptiveEngine.current_difficulty (the enum member)
    transition_history,  \* AdaptiveEngine.transition_history
    ret,                 \* the last call: its name, arguments and outcome
    session              \* the front end's loop: position, puzzle index i and
                         \* the session length puzzle_count

vars == <<attempts, current_streak, best_streak, difficulty_level,
          current_difficulty, transition_history, ret, session>>

-----------------------------------------------------------------------------
(* Bounds of the model *)

\* The longest attempt log explored.
MaxAttempts == 3

\* The most adjust_difficulty calls that return in one behaviour.
MaxAdjusts == 2

\* get_recent_performance is called with n in 0..MaxN.
MaxN == 3

\* The longest front-end session, in puzzles.
MaxPuzzles == 9

\* The most decisions taken in a row on given results of the two tests.
MaxDecisions == 3

\* The largest total_count of a snapshot handed to the rule functions.
MaxCount == 5

\* The largest avg_time of such a snapshot, in half seconds.
MaxHalfSeconds == 130

\* time_taken values a well-behaved caller passes (seconds): a fast one
\* (below half of every expected time but level 1's, where it is exactly
\* half) and a slow one (above twice every expected time).
Times == {5, 70}

\* time_taken values only a caller bug passes.
NegativeTimes == {-1}

\* Wall-clock seconds between session start and a get_session_summary call.
Durations == {3, 60}

-----------------------------------------------------------------------------
(* Program constants *)

min_difficulty == 1
max_difficulty == 4
window_size == 3

\* Difficulty (Enum): member name -> value
Difficulty == [EASY |-> 1, MEDIUM |-> 2, HARD |-> 3, EXPERT |-> 4]

\* adjust_difficulty's difficulty_map: value -> member name
difficulty_map == <<"EASY", "MEDIUM", "HARD", "EXPERT">>

\* AdaptiveEngine.expected_times (seconds), keyed by level 1..4
expected_times == <<10, 15, 20, 30>>

-----------------------------------------------------------------------------
(* Float arithmetic as exact fractions *)

Abs(x) == IF x < 0 THEN -x ELSE x

RECURSIVE GCD(_, _)
GCD(a, b) == IF b = 0 THEN a ELSE GCD(b, a % b)

\* n / d for d > 0, in lowest terms
Frac(n, d) == LET g == GCD(Abs(n), d) IN <<n \div g, d \div g>>

FLt(a, b) == a[1] * b[2] < b[1] * a[2]
FLe(a, b) == a[1] * b[2] <= b[1] * a[2]
FMul(a, b) == Frac(a[1] * b[1], a[2] * b[2])
FAdd(a, b) == Frac(a[1] * b[2] + b[1] * a[2], a[2] * b[2])
FInt(i) == <<i, 1>>

accuracy_threshold_up == Frac(80, 100)
accuracy_threshold_down == Frac(40, 100)
time_weight == Frac(3, 10)

-----------------------------------------------------------------------------
(* PerformanceTracker *)

\* s[start:] of a Python list
PySliceFrom(s, start) ==
    LET len == Len(s)
        lo == IF start < 0
              THEN (IF start + len < 0 THEN 0 ELSE start + len)
              ELSE (IF start > len THEN len ELSE start)
    IN SubSeq(s, lo + 1, len)

RECURSIVE CountCorrect(_)
\* sum(1 for a in recent if a['correct'])
CountCorrect(s) ==
    IF s = <<>> THEN 0
    ELSE (IF Head(s).correct THEN 1 ELSE 0) + CountCorrect(Tail(s))

RECURSIVE SumTimes(_)
\* sum(a['time_taken'] for a in recent)
SumTimes(s) ==
    IF s = <<>> THEN 0 ELSE Head(s).time_taken + SumTimes(Tail(s))

\* update_streak with no reset on an incorrect attempt
update_streak_no_reset(cur, best, correct) ==
    IF correct
    THEN [current_streak |-> cur + 1,
          best_streak |-> IF best >= cur + 1 THEN best ELSE cur + 1]
    ELSE [current_streak |-> cur, best_streak |-> best]

\* update_streak with the best streak never raised
update_streak_no_best(cur, best, correct) ==
    IF correct
    THEN [current_streak |-> cur + 1, best_streak |-> best]
    ELSE [current_streak |-> 0, best_streak |-> best]

\* The streak update of record_attempt: the pair after one attempt.
update_streak(cur, best, correct) ==
    IF correct
    THEN [current_streak |-> cur + 1,
          best_streak |-> IF best >= cur + 1 THEN best ELSE cur + 1]
    ELSE [current_streak |-> 0, best_streak |-> best]

\* The entry record_attempt appends.  The puzzle, the answers and the
\* timestamp are stored by the code and read by no operation; they are left
\* out of the entry.
new_attempt(correct, time_taken, level) ==
    [correct |-> correct, time_taken |-> time_taken, difficulty |-> level]

\* append_attempt as list.insert(0, attempt)
append_attempt_front(log, attempt) == <<attempt>> \o log

\* self.attempts.append(attempt)
append_attempt(log, attempt) == Append(log, attempt)

\* get_recent_performance taking the statistics of the whole log
get_recent_performance_whole(log, n) ==
    IF log = <<>>
    THEN [accuracy |-> FInt(0), avg_time |-> FInt(0),
          correct_count |-> 0, total_count |-> 0]
    ELSE LET recent == log
             correct_count == CountCorrect(recent)
             total_count == Len(recent)
         IN [accuracy |-> Frac(correct_count, total_count),
             avg_time |-> Frac(SumTimes(recent), total_count),
             correct_count |-> correct_count,
             total_count |-> total_count]

\* PerformanceTracker.get_recent_performance(n) on log
get_recent_performance(log, n) ==
    IF log = <<>>
    THEN [accuracy |-> FInt(0), avg_time |-> FInt(0),
          correct_count |-> 0, total_count |-> 0]
    ELSE LET recent == PySliceFrom(log, -n)
             correct_count == CountCorrect(recent)
             total_count == Len(recent)
         IN [accuracy |-> Frac(correct_count, total_count),
             avg_time |-> Frac(SumTimes(recent), total_count),
             correct_count |-> correct_count,
             total_count |-> total_count]

\* The attempts of log recorded at difficulty d, in order
AtDifficulty(log, d) == SelectSeq(log, LAMBDA a : a.difficulty = d)

RECURSIVE TimesOf(_)
TimesOf(s) == IF s = <<>> THEN <<>> ELSE <<Head(s).time_taken>> \o TimesOf(Tail(s))

\* PerformanceTracker.get_difficulty_performance() on log
get_difficulty_performance(log) ==
    [d \in {log[i].difficulty : i \in DOMAIN log} |->
        LET mine == AtDifficulty(log, d)
        IN [correct |-> CountCorrect(mine),
            total |-> Len(mine),
            times |-> TimesOf(mine),
            accuracy |-> Frac(CountCorrect(mine), Len(mine)),
            avg_time |-> Frac(SumTimes(mine), Len(mine))]]

\* PerformanceTracker.get_session_summary(); duration is now - session_start.
\* The session starts at instant 0.
get_session_summary(log, cur, best, duration) ==
    IF log = <<>>
    THEN [user_name |-> "Student", total_puzzles |-> 0,
          accuracy |-> FInt(0), avg_time |-> FInt(0),
          best_streak |-> 0, session_duration |-> 0]
    ELSE LET total_puzzles == Len(log)
             correct_count == CountCorrect(log)
         IN [user_name |-> "Student",
             total_puzzles |-> total_puzzles,
             correct |-> correct_count,
             incorrect |-> total_puzzles - correct_count,
             accuracy |-> Frac(correct_count, total_puzzles),
             avg_time |-> Frac(SumTimes(log), total_puzzles),
             best_streak |-> best,
             current_streak |-> cur,
             session_duration |-> duration,
             difficulty_breakdown |-> get_difficulty_performance(log),
             session_start |-> 0,
             session_end |-> duration]

\* The keys of the summary the web front end reads when it renders it.
RenderedSummaryKeys ==
    {"total_puzzles", "accuracy", "avg_time", "best_streak", "correct",
     "incorrect", "current_streak", "session_duration", "difficulty_breakdown"}

-----------------------------------------------------------------------------
(* AdaptiveEngine *)

\* Whether self.expected_times[level] finds its key (a KeyError otherwise)
has_expected_time(level) == level \in DOMAIN expected_times

\* difficulty_of reading the map zero-based
difficulty_of_zero_based(level) ==
    IF level + 1 \in DOMAIN difficulty_map THEN difficulty_map[level + 1]
    ELSE "KeyError"

\* difficulty_of as a dict.get with a default, which never raises
difficulty_of_default(level) ==
    IF level \in DOMAIN difficulty_map THEN difficulty_map[level]
    ELSE "MEDIUM"

\* difficulty_map[level]: the enum member, or "KeyError" when the dict has no
\* such key
difficulty_of(level) ==
    IF level \in DOMAIN difficulty_map THEN difficulty_map[level]
    ELSE "KeyError"

\* calculate_performance_score without the neutral score of an empty window
calculate_performance_score_no_neutral(perf, level) ==
    LET expected_time == FInt(expected_times[level])
        time_score ==
            IF FLt(perf.avg_time, FMul(expected_time, Frac(5, 10)))
            THEN Frac(10, 10)
            ELSE IF FLt(perf.avg_time, expected_time)
            THEN Frac(8, 10)
            ELSE IF FLt(perf.avg_time, FMul(expected_time, Frac(15, 10)))
            THEN Frac(6, 10)
            ELSE Frac(3, 10)
    IN FAdd(FMul(perf.accuracy, FAdd(FInt(1), FMul(FInt(-1), time_weight))),
            FMul(time_score, time_weight))

\* calculate_performance_score with the accuracy left unweighted
calculate_performance_score_unweighted(perf, level) ==
    IF perf.total_count = 0 THEN Frac(1, 2)
    ELSE LET expected_time == FInt(expected_times[level])
             time_score ==
                 IF FLt(perf.avg_time, FMul(expected_time, Frac(5, 10)))
                 THEN Frac(10, 10)
                 ELSE IF FLt(perf.avg_time, expected_time)
                 THEN Frac(8, 10)
                 ELSE IF FLt(perf.avg_time, FMul(expected_time, Frac(15, 10)))
                 THEN Frac(6, 10)
                 ELSE Frac(3, 10)
         IN FAdd(perf.accuracy, FMul(time_score, time_weight))

\* Whether calculate_performance_score raises KeyError
score_raises(perf, level) ==
    perf.total_count # 0 /\ ~has_expected_time(level)

\* AdaptiveEngine.calculate_performance_score, where it does not raise
calculate_performance_score(perf, level) ==
    IF perf.total_count = 0 THEN Frac(1, 2)
    ELSE LET expected_time == FInt(expected_times[level])
             time_score ==
                 IF FLt(perf.avg_time, FMul(expected_time, Frac(5, 10)))
                 THEN Frac(10, 10)
                 ELSE IF FLt(perf.avg_time, expected_time)
                 THEN Frac(8, 10)
                 ELSE IF FLt(perf.avg_time, FMul(expected_time, Frac(15, 10)))
                 THEN Frac(6, 10)
                 ELSE Frac(3, 10)
         IN FAdd(FMul(perf.accuracy, FAdd(FInt(1), FMul(FInt(-1), time_weight))),
                 FMul(time_score, time_weight))

\* Whether should_increase_difficulty raises KeyError
increase_raises(perf, level) ==
    perf.total_count >= window_size /\ ~has_expected_time(level)

\* should_increase_difficulty without the override for accuracy >= 0.90
should_increase_no_override(perf, level) ==
    IF perf.total_count < window_size THEN FALSE
    ELSE LET expected_time == FInt(expected_times[level])
         IN /\ FLe(accuracy_threshold_up, perf.accuracy)
            /\ FLt(perf.avg_time, FMul(expected_time, Frac(12, 10)))

\* should_increase_difficulty asking for more than window_size attempts
should_increase_off_by_one(perf, level) ==
    IF perf.total_count <= window_size THEN FALSE
    ELSE FLe(Frac(90, 100), perf.accuracy)

\* AdaptiveEngine.should_increase_difficulty, where it does not raise
should_increase_difficulty(perf, level) ==
    IF perf.total_count < window_size THEN FALSE
    ELSE LET expected_time == FInt(expected_times[level])
         IN IF /\ FLe(accuracy_threshold_up, perf.accuracy)
               /\ FLt(perf.avg_time, FMul(expected_time, Frac(12, 10)))
            THEN TRUE
            ELSE IF FLe(Frac(90, 100), perf.accuracy) THEN TRUE
            ELSE FALSE

\* Whether should_decrease_difficulty raises KeyError
decrease_raises(perf, level) ==
    perf.total_count >= 2 /\ ~has_expected_time(level)

\* should_decrease_difficulty testing accuracy <= accuracy_threshold_up
should_decrease_up_threshold(perf, level) ==
    IF perf.total_count < 2 THEN FALSE
    ELSE LET expected_time == FInt(expected_times[level])
         IN \/ FLe(perf.accuracy, accuracy_threshold_up)
            \/ /\ FLt(perf.accuracy, Frac(60, 100))
               /\ FLt(FMul(expected_time, FInt(2)), perf.avg_time)

\* should_decrease_difficulty asking for a full window, as the increase does
should_decrease_needs_window(perf, level) ==
    IF perf.total_count < window_size THEN FALSE
    ELSE LET expected_time == FInt(expected_times[level])
         IN \/ FLt(perf.accuracy, accuracy_threshold_down)
            \/ /\ FLt(perf.accuracy, Frac(60, 100))
               /\ FLt(FMul(expected_time, FInt(2)), perf.avg_time)

\* AdaptiveEngine.should_decrease_difficulty, where it does not raise
should_decrease_difficulty(perf, level) ==
    IF perf.total_count < 2 THEN FALSE
    ELSE LET expected_time == FInt(expected_times[level])
         IN IF FLt(perf.accuracy, accuracy_threshold_down) THEN TRUE
            ELSE IF /\ FLt(perf.accuracy, Frac(60, 100))
                    /\ FLt(FMul(expected_time, FInt(2)), perf.avg_time)
            THEN TRUE
            ELSE FALSE

\* decide that raises the level by two steps
decide_step_two(perf, current_diff) ==
    IF should_increase_difficulty(perf, current_diff)
    THEN IF current_diff < max_difficulty
         THEN [decision |-> "INCREASE", reason |-> "High performance",
               level |-> current_diff + 2]
         ELSE [decision |-> "MAINTAIN",
               reason |-> "Performance is appropriate for current level",
               level |-> current_diff]
    ELSE IF should_decrease_difficulty(perf, current_diff)
    THEN IF current_diff > min_difficulty
         THEN [decision |-> "DECREASE", reason |-> "Struggling",
               level |-> current_diff - 1]
         ELSE [decision |-> "MAINTAIN",
               reason |-> "Performance is appropriate for current level",
               level |-> current_diff]
    ELSE [decision |-> "MAINTAIN",
          reason |-> "Performance is appropriate for current level",
          level |-> current_diff]

\* decide without the boundary guards
decide_unguarded(perf, current_diff) ==
    IF should_increase_difficulty(perf, current_diff)
    THEN [decision |-> "INCREASE", reason |-> "High performance",
          level |-> current_diff + 1]
    ELSE IF should_decrease_difficulty(perf, current_diff)
    THEN [decision |-> "DECREASE", reason |-> "Struggling",
          level |-> current_diff - 1]
    ELSE [decision |-> "MAINTAIN",
          reason |-> "Performance is appropriate for current level",
          level |-> current_diff]

\* decide that moves first and clamps the level afterwards
decide_clamp_after(perf, current_diff) ==
    IF should_increase_difficulty(perf, current_diff)
    THEN [decision |-> "INCREASE", reason |-> "High performance",
          level |-> IF current_diff + 1 > max_difficulty
                    THEN max_difficulty ELSE current_diff + 1]
    ELSE IF should_decrease_difficulty(perf, current_diff)
    THEN [decision |-> "DECREASE", reason |-> "Struggling",
          level |-> IF current_diff - 1 < min_difficulty
                    THEN min_difficulty ELSE current_diff - 1]
    ELSE [decision |-> "MAINTAIN",
          reason |-> "Performance is appropriate for current level",
          level |-> current_diff]

\* decision_branch testing the decrease result first
decision_branch_decrease_first(increase, decrease, current_diff) ==
    IF decrease
    THEN IF current_diff > min_difficulty
         THEN [decision |-> "DECREASE", reason |-> "Struggling",
               level |-> current_diff - 1]
         ELSE [decision |-> "MAINTAIN",
               reason |-> "Performance is appropriate for current level",
               level |-> current_diff]
    ELSE IF increase
    THEN IF current_diff < max_difficulty
         THEN [decision |-> "INCREASE", reason |-> "High performance",
               level |-> current_diff + 1]
         ELSE [decision |-> "MAINTAIN",
               reason |-> "Performance is appropriate for current level",
               level |-> current_diff]
    ELSE [decision |-> "MAINTAIN",
          reason |-> "Performance is appropriate for current level",
          level |-> current_diff]

\* The if / elif of adjust_difficulty with its boundary guards, on the
\* results of the two tests: the decision, the reason and the new
\* difficulty_level. The elif is reached only when the increase result is
\* false.
decision_branch(increase, decrease, current_diff) ==
    IF increase
    THEN IF current_diff < max_difficulty
         THEN [decision |-> "INCREASE", reason |-> "High performance",
               level |-> current_diff + 1]
         ELSE [decision |-> "MAINTAIN",
               reason |-> "Performance is appropriate for current level",
               level |-> current_diff]
    ELSE IF decrease
    THEN IF current_diff > min_difficulty
         THEN [decision |-> "DECREASE", reason |-> "Struggling",
               level |-> current_diff - 1]
         ELSE [decision |-> "MAINTAIN",
               reason |-> "Performance is appropriate for current level",
               level |-> current_diff]
    ELSE [decision |-> "MAINTAIN",
          reason |-> "Performance is appropriate for current level",
          level |-> current_diff]

\* The decision of adjust_difficulty on a snapshot: decision_branch on what
\* should_increase_difficulty and should_decrease_difficulty return.
decide(perf, current_diff) ==
    decision_branch(should_increase_difficulty(perf, current_diff),
                    should_decrease_difficulty(perf, current_diff),
                    current_diff)

\* The outcome of a call that raised
Raised(exc) == [raised |-> exc]

\* record_transition that keeps only the records that changed the level
record_transition_changes_only(history, transition) ==
    IF transition.decision = "MAINTAIN" THEN history
    ELSE Append(history, transition)

\* self.transition_history.append(transition)
record_transition(history, transition) == Append(history, transition)

\* AdaptiveEngine.adjust_difficulty on the log: the exception it raises
\* ("none" if it returns), the engine's fields after the call and the
\* Transition Record it returns.  An exception leaves the fields as they
\* were when it was raised: the level is written before difficulty_map is
\* read, the history only after it.
adjust_difficulty(log, level, enum, history) ==
    LET recent_perf == get_recent_performance(log, window_size)
        unchanged == [raised |-> "KeyError", difficulty_level |-> level,
                      current_difficulty |-> enum,
                      transition_history |-> history,
                      value |-> Raised("KeyError")]
    IN IF score_raises(recent_perf, level) THEN unchanged
       ELSE IF increase_raises(recent_perf, level) THEN unchanged
       ELSE IF /\ ~should_increase_difficulty(recent_perf, level)
               /\ decrease_raises(recent_perf, level) THEN unchanged
       ELSE LET perf_score == calculate_performance_score(recent_perf, level)
                d == decide(recent_perf, level)
                transition == [from_level |-> level,
                               to_level |-> d.level,
                               decision |-> d.decision,
                               reason |-> d.reason,
                               performance_score |-> perf_score,
                               recent_accuracy |-> recent_perf.accuracy,
                               recent_avg_time |-> recent_perf.avg_time]
            IN IF difficulty_of(d.level) = "KeyError"
               THEN [unchanged EXCEPT !.difficulty_level = d.level]
               ELSE [raised |-> "none",
                     difficulty_level |-> d.level,
                     current_difficulty |-> difficulty_of(d.level),
                     transition_history |->
                         record_transition(history, transition),
                     value |-> transition]

-----------------------------------------------------------------------------
(* The state machine: a caller of the two objects *)

TypeOK ==
    /\ Len(attempts) <= MaxAttempts
    /\ current_streak \in Nat
    /\ best_streak \in Nat
    /\ difficulty_level \in Int
    /\ current_difficulty \in DOMAIN Difficulty
    /\ Len(transition_history) <= MaxAdjusts

\* The tracker and the engine driven directly, with no front-end loop.
NoSession == [pc |-> "none", i |-> 0, puzzle_count |-> 0]

\* PerformanceTracker(name) and AdaptiveEngine(initial_difficulty)
Init ==
    /\ attempts = <<>>
    /\ current_streak = 0
    /\ best_streak = 0
    /\ \E d \in DOMAIN Difficulty :
          /\ current_difficulty = d
          /\ difficulty_level = Difficulty[d]
    /\ transition_history = <<>>
    /\ ret = [op |-> "init", args |-> <<>>, raised |-> "none",
              value |-> Raised("none")]
    /\ session = NoSession

\* tracker.record_attempt(puzzle, user_answer, correct, time_taken,
\* difficulty_level), the level passed being the engine's, as both front
\* ends pass it.
RecordAttempt(times) ==
    /\ Len(attempts) < MaxAttempts
    /\ \E correct \in BOOLEAN, time_taken \in times :
          LET s == update_streak(current_streak, best_streak, correct)
          IN /\ attempts' = append_attempt(attempts,
                    new_attempt(correct, time_taken, difficulty_level))
             /\ current_streak' = s.current_streak
             /\ best_streak' = s.best_streak
             /\ ret' = [op |-> "record_attempt",
                        args |-> <<correct, time_taken, difficulty_level>>,
                        raised |-> "none", value |-> Raised("none")]
    /\ UNCHANGED <<difficulty_level, current_difficulty, transition_history,
                   session>>

\* tracker.get_recent_performance(n)
GetRecentPerformance ==
    /\ \E n \in 0..MaxN :
          ret' = [op |-> "get_recent_performance", args |-> <<n>>,
                  raised |-> "none",
                  value |-> get_recent_performance(attempts, n)]
    /\ UNCHANGED <<attempts, current_streak, best_streak, difficulty_level,
                   current_difficulty, transition_history, session>>

\* tracker.get_session_summary()
GetSessionSummary ==
    /\ \E duration \in Durations :
          ret' = [op |-> "get_session_summary", args |-> <<>>,
                  raised |-> "none",
                  value |-> get_session_summary(attempts, current_streak,
                                                best_streak, duration)]
    /\ UNCHANGED <<attempts, current_streak, best_streak, difficulty_level,
                   current_difficulty, transition_history, session>>

\* engine.adjust_difficulty(tracker)
AdjustDifficulty ==
    /\ Len(transition_history) < MaxAdjusts
    /\ LET r == adjust_difficulty(attempts, difficulty_level,
                                  current_difficulty, transition_history)
       IN /\ difficulty_level' = r.difficulty_level
          /\ current_difficulty' = r.current_difficulty
          /\ transition_history' = r.transition_history
          /\ ret' = [op |-> "adjust_difficulty", args |-> <<difficulty_level>>,
                     raised |-> r.raised, value |-> r.value]
    /\ UNCHANGED <<attempts, current_streak, best_streak, session>>

Next ==
    \/ RecordAttempt(Times)
    \/ GetRecentPerformance
    \/ GetSessionSummary
    \/ AdjustDifficulty

Spec == Init /\ [][Next]_vars

-----------------------------------------------------------------------------
(* Callers that break the core's preconditions *)

\* Levels outside [min_difficulty, max_difficulty]
OutOfRangeLevels ==
    {min_difficulty - 2, min_difficulty - 1, max_difficulty + 1, max_difficulty + 2}

\* Construction followed by a caller writing engine.difficulty_level (a
\* public attribute) with a value outside 1..4.
InitLevelFault ==
    /\ attempts = <<>>
    /\ current_streak = 0
    /\ best_streak = 0
    /\ current_difficulty \in DOMAIN Difficulty
    /\ difficulty_level \in OutOfRangeLevels
    /\ transition_history = <<>>
    /\ ret = [op |-> "init", args |-> <<>>, raised |-> "none",
              value |-> Raised("none")]
    /\ session = NoSession

SpecLevelFault == InitLevelFault /\ [][Next]_vars

\* A caller that may pass a negative time_taken to record_attempt.
NextNegativeTime ==
    \/ RecordAttempt(Times \cup NegativeTimes)
    \/ GetRecentPerformance
    \/ GetSessionSummary
    \/ AdjustDifficulty

SpecNegativeTime == Init /\ [][NextNegativeTime]_vars

-----------------------------------------------------------------------------
(* The rule functions on any snapshot *)

\* A fresh tracker and engine, and a snapshot and a level to hand to the
\* pure rule functions: total_count up to MaxCount, any correct_count up to
\* it, avg_time on a half-second grid (the zero snapshot when total_count
\* is 0).
InitRules ==
    /\ attempts = <<>>
    /\ current_streak = 0
    /\ best_streak = 0
    /\ current_difficulty = "MEDIUM"
    /\ difficulty_level = Difficulty["MEDIUM"]
    /\ transition_history = <<>>
    /\ session = NoSession
    /\ \E t \in 0..MaxCount, c \in 0..MaxCount, h \in 0..MaxHalfSeconds,
          L \in min_difficulty..max_difficulty :
          /\ c <= t
          /\ t = 0 => h = 0
          /\ ret = [op |-> "snapshot",
                    args |-> <<[accuracy |-> IF t = 0 THEN FInt(0)
                                             ELSE Frac(c, t),
                                avg_time |-> Frac(h, 2),
                                correct_count |-> c,
                                total_count |-> t], L>>,
                    raised |-> "none", value |-> Raised("none")]

\* calculate_performance_score, should_increase_difficulty,
\* should_decrease_difficulty and the decision of adjust_difficulty on the
\* snapshot and level drawn.
EvaluateRules ==
    /\ ret.op = "snapshot"
    /\ LET perf == ret.args[1]
           L == ret.args[2]
       IN ret' = [op |-> "evaluate_rules", args |-> ret.args,
                  raised |-> "none",
                  value |-> [performance_score |->
                                 calculate_performance_score(perf, L),
                             should_increase |->
                                 should_increase_difficulty(perf, L),
                             should_decrease |->
                                 should_decrease_difficulty(perf, L),
                             decision |-> decide(perf, L).decision,
                             level |-> decide(perf, L).level]]
    /\ UNCHANGED <<attempts, current_streak, best_streak, difficulty_level,
                   current_difficulty, transition_history, session>>

SpecRules == InitRules /\ [][EvaluateRules]_vars

-----------------------------------------------------------------------------
(* The if / elif of adjust_difficulty on any pair of test results *)

\* adjust_difficulty(tracker) on a fresh tracker, the results of
\* should_increase_difficulty and should_decrease_difficulty being given
\* instead of computed: the branch, the enum update and the transition
\* record are the method's.
AdjustOnResults ==
    /\ Len(transition_history) < MaxDecisions
    /\ \E increase \in BOOLEAN, decrease \in BOOLEAN :
          LET recent_perf == get_recent_performance(attempts, window_size)
              d == decision_branch(increase, decrease, difficulty_level)
              transition ==
                  [from_level |-> difficulty_level,
                   to_level |-> d.level,
                   decision |-> d.decision,
                   reason |-> d.reason,
                   performance_score |->
                       calculate_performance_score(recent_perf,
                                                   difficulty_level),
                   recent_accuracy |-> recent_perf.accuracy,
                   recent_avg_time |-> recent_perf.avg_time]
          IN /\ difficulty_level' = d.level
             /\ current_difficulty' = difficulty_of(d.level)
             /\ transition_history' =
                    record_transition(transition_history, transition)
             /\ ret' = [op |-> "adjust_on_results",
                        args |-> <<difficulty_level, increase, decrease>>,
                        raised |-> "none", value |-> transition]
    /\ UNCHANGED <<attempts, current_streak, best_streak, session>>

SpecBranch == Init /\ [][AdjustOnResults]_vars

-----------------------------------------------------------------------------
(* A front-end session: run_learning_session / submit_answer *)

\* The shortest session get_session_length and the app's slider accept.
MinPuzzles == 5

\* The test without the check that more puzzles remain
should_adjust_every_third(count, total) == count % 3 = 0

\* time_taken of the learner's answers in a session (seconds). The loop
\* reads time_taken only to print feedback, so one pace is drawn; right and
\* wrong answers still move the level up and down.
SessionTimes == {5}

\* The front ends' test after recording attempt number count of total:
\* i % 3 == 0 and i < puzzle_count.
should_adjust(count, total) == count % 3 = 0 /\ count < total

\* The loop after the body of iteration i: the next puzzle, or the end of
\* range(1, puzzle_count + 1).
next_puzzle(sess) ==
    IF sess.i < sess.puzzle_count
    THEN [pc |-> "puzzle", i |-> sess.i + 1, puzzle_count |-> sess.puzzle_count]
    ELSE [pc |-> "finished", i |-> sess.i, puzzle_count |-> sess.puzzle_count]

\* run(): the learner chooses the initial difficulty and the session length;
\* the first puzzle is presented.
InitSession ==
    /\ attempts = <<>>
    /\ current_streak = 0
    /\ best_streak = 0
    /\ \E d \in DOMAIN Difficulty :
          /\ current_difficulty = d
          /\ difficulty_level = Difficulty[d]
    /\ transition_history = <<>>
    /\ ret = [op |-> "init", args |-> <<>>, raised |-> "none",
              value |-> Raised("none")]
    /\ \E P \in MinPuzzles..MaxPuzzles :
          session = [pc |-> "puzzle", i |-> 1, puzzle_count |-> P]

\* The learner answers puzzle i and the front end records the attempt with
\* the engine's level.
SessionAnswer ==
    /\ session.pc = "puzzle"
    /\ \E correct \in BOOLEAN, time_taken \in SessionTimes :
          LET s == update_streak(current_streak, best_streak, correct)
          IN /\ attempts' = append_attempt(attempts,
                    new_attempt(correct, time_taken, difficulty_level))
             /\ current_streak' = s.current_streak
             /\ best_streak' = s.best_streak
             /\ ret' = [op |-> "record_attempt",
                        args |-> <<correct, time_taken, difficulty_level>>,
                        raised |-> "none", value |-> Raised("none")]
    /\ session' = [session EXCEPT !.pc = "recorded"]
    /\ UNCHANGED <<difficulty_level, current_difficulty, transition_history>>

\* The learner types 'q' at puzzle i: the loop breaks.
SessionQuit ==
    /\ session.pc = "puzzle"
    /\ session' = [session EXCEPT !.pc = "finished"]
    /\ UNCHANGED <<attempts, current_streak, best_streak, difficulty_level,
                   current_difficulty, transition_history, ret>>

\* The loop after adjust_difficulty has returned (or raised) in iteration
\* i: a decision other than MAINTAIN is followed by the prompt
\* 'Press Enter to continue...', MAINTAIN by the next iteration; an
\* exception ends run() with no summary.
after_adjust(sess, r) ==
    IF r.raised # "none" THEN [sess EXCEPT !.pc = "error"]
    ELSE IF r.value.decision # "MAINTAIN" THEN [sess EXCEPT !.pc = "waiting"]
    ELSE next_puzzle(sess)

\* After recording attempt i the test holds: adjust_difficulty(tracker),
\* then the wait for Enter or the next iteration.
SessionAdjust ==
    /\ session.pc = "recorded"
    /\ should_adjust(session.i, session.puzzle_count)
    /\ LET r == adjust_difficulty(attempts, difficulty_level,
                                  current_difficulty, transition_history)
       IN /\ difficulty_level' = r.difficulty_level
          /\ current_difficulty' = r.current_difficulty
          /\ transition_history' = r.transition_history
          /\ ret' = [op |-> "adjust_difficulty", args |-> <<difficulty_level>>,
                     raised |-> r.raised, value |-> r.value]
          /\ session' = after_adjust(session, r)
    /\ UNCHANGED <<attempts, current_streak, best_streak>>

\* The learner presses Enter at 'Press Enter to continue...'.
SessionContinue ==
    /\ session.pc = "waiting"
    /\ session' = next_puzzle(session)
    /\ UNCHANGED <<attempts, current_streak, best_streak, difficulty_level,
                   current_difficulty, transition_history, ret>>

\* Ctrl-C at either prompt: run() catches KeyboardInterrupt and shows the
\* summary if any attempt was recorded.
SessionInterrupt ==
    /\ session.pc \in {"puzzle", "waiting"}
    /\ session' = [session EXCEPT
                      !.pc = IF attempts # <<>> THEN "finished" ELSE "done"]
    /\ UNCHANGED <<attempts, current_streak, best_streak, difficulty_level,
                   current_difficulty, transition_history, ret>>

\* End of input at either prompt: input() raises EOFError, run() reports
\* an error and shows no summary.
SessionEndOfInput ==
    /\ session.pc \in {"puzzle", "waiting"}
    /\ session' = [session EXCEPT !.pc = "error"]
    /\ UNCHANGED <<attempts, current_streak, best_streak, difficulty_level,
                   current_difficulty, transition_history, ret>>

\* After recording attempt i the test fails: straight to the next iteration.
SessionNoAdjust ==
    /\ session.pc = "recorded"
    /\ ~should_adjust(session.i, session.puzzle_count)
    /\ session' = next_puzzle(session)
    /\ UNCHANGED <<attempts, current_streak, best_streak, difficulty_level,
                   current_difficulty, transition_history, ret>>

\* show_final_summary() after the loop
ShowFinalSummary ==
    /\ session.pc = "finished"
    /\ \E duration \in Durations :
          ret' = [op |-> "get_session_summary", args |-> <<>>,
                  raised |-> "none",
                  value |-> get_session_summary(attempts, current_streak,
                                                best_streak, duration)]
    /\ session' = [session EXCEPT !.pc = "done"]
    /\ UNCHANGED <<attempts, current_streak, best_streak, difficulty_level,
                   current_difficulty, transition_history>>

NextSession ==
    \/ SessionAnswer
    \/ SessionQuit
    \/ SessionAdjust
    \/ SessionContinue
    \/ SessionInterrupt
    \/ SessionEndOfInput
    \/ SessionNoAdjust
    \/ ShowFinalSummary

SpecSession == InitSession /\ [][NextSession]_vars

-----------------------------------------------------------------------------
(* Properties *)

Min(a, b) == IF a < b THEN a ELSE b

\* The last call was adjust_difficulty and it returned a Transition Record.
Adjusted == ret.op = "adjust_difficulty" /\ ret.raised = "none"

\* The window adjust_difficulty evaluates on the present log.
Window == get_recent_performance(attempts, window_size)

\* C1: from any initial difficulty in 1..4, after any sequence of
\* record_attempt and adjust_difficulty calls, difficulty_level is in 1..4.
C1_LevelInRange ==
    difficulty_level \in min_difficulty..max_difficulty

\* An increase to level 4 followed by a second call whose increase condition
\* holds again.
C1_Witness ==
    /\ Len(transition_history) = 2
    /\ transition_history[1].decision = "INCREASE"
    /\ transition_history[2].from_level = max_difficulty
    /\ should_increase_difficulty(Window, max_difficulty)
    /\ difficulty_level = max_difficulty

\* C2 (as claimed): get_recent_performance(n) has total_count = min(n, number
\* of attempts recorded) for every n >= 0, counted over the last entries.
C2_WindowBound ==
    ret.op = "get_recent_performance" =>
        LET n == ret.args[1]
            k == Min(n, Len(attempts))
        IN /\ ret.value.total_count = k
           /\ ret.value.correct_count =
                 CountCorrect(SubSeq(attempts, Len(attempts) - k + 1,
                                     Len(attempts)))

\* C3: with difficulty_level outside 1..4 on entry, adjust_difficulty raises
\* for every attempt log, and changes neither the level nor the enum nor the
\* transition history.
C3_FailFast ==
    [][(/\ difficulty_level \notin min_difficulty..max_difficulty
        /\ AdjustDifficulty)
       => /\ ret'.raised # "none"
          /\ difficulty_level' = difficulty_level
          /\ current_difficulty' = current_difficulty
          /\ transition_history' = transition_history]_vars

\* adjust_difficulty has raised on a full window at a level outside 1..4.
C3_Witness ==
    /\ ret.op = "adjust_difficulty"
    /\ ret.raised = "KeyError"
    /\ ret.args[1] \notin min_difficulty..max_difficulty
    /\ Len(attempts) = window_size

\* C4 (as claimed): record_attempt with a negative time_taken raises, and no
\* negative time is ever stored in the log.
C4_NegativeTimeRejected ==
    /\ (ret.op = "record_attempt" /\ ret.args[2] < 0) => ret.raised # "none"
    /\ \A i \in DOMAIN attempts : attempts[i].time_taken >= 0

\* C5 (as claimed): for any number of recorded attempts, zero included, the
\* summary holds every field the front end reads.
C5_SummaryComplete ==
    ret.op = "get_session_summary" =>
        RenderedSummaryKeys \subseteq DOMAIN ret.value

\* C6: best_streak >= current_streak >= 0 initially and after every
\* record_attempt.
C6_StreakInvariant ==
    best_streak >= current_streak /\ current_streak >= 0

\* An incorrect attempt has just ended a streak of two.
C6_Witness ==
    /\ ret.op = "record_attempt"
    /\ ret.args[1] = FALSE
    /\ current_streak = 0
    /\ best_streak = 2

\* C8: adjust_difficulty follows the rule table on the last-3 snapshot:
\* INCREASE by one when should_increase holds below level 4, else DECREASE by
\* one when should_decrease holds above level 1, else MAINTAIN; three correct
\* fast attempts below level 4 yield INCREASE to the next level.
C8_RuleTable ==
    Adjusted =>
        LET t == ret.value
            from == t.from_level
        IN /\ from = ret.args[1]
           /\ difficulty_level = t.to_level
           /\ IF should_increase_difficulty(Window, from) /\ from < max_difficulty
              THEN t.decision = "INCREASE" /\ t.to_level = from + 1
              ELSE IF should_decrease_difficulty(Window, from)
                      /\ from > min_difficulty
              THEN t.decision = "DECREASE" /\ t.to_level = from - 1
              ELSE t.decision = "MAINTAIN" /\ t.to_level = from
           /\ (/\ Len(attempts) >= 3
               /\ \A i \in (Len(attempts) - 2)..Len(attempts) :
                     attempts[i].correct /\ attempts[i].time_taken = 5
               /\ from < max_difficulty)
              => (t.decision = "INCREASE" /\ t.to_level = from + 1)

\* Three correct attempts of 5 s at level 2, then an INCREASE to level 3.
C8_Witness ==
    /\ Adjusted
    /\ Len(attempts) = 3
    /\ \A i \in DOMAIN attempts :
          /\ attempts[i].correct
          /\ attempts[i].time_taken = 5
          /\ attempts[i].difficulty = 2
    /\ ret.value.from_level = 2
    /\ ret.value.to_level = 3
    /\ ret.value.decision = "INCREASE"

\* C9: at level 4 with should_increase true, and at level 1 with
\* should_decrease true, the record is MAINTAIN with to_level = from_level;
\* no record labelled INCREASE or DECREASE leaves the level where it was.
C9_BoundaryMaintain ==
    Adjusted =>
        LET t == ret.value
        IN /\ (\/ /\ t.from_level = max_difficulty
                  /\ should_increase_difficulty(Window, max_difficulty)
               \/ /\ t.from_level = min_difficulty
                  /\ should_decrease_difficulty(Window, min_difficulty))
              => (t.decision = "MAINTAIN" /\ t.to_level = t.from_level)
           /\ t.decision # "MAINTAIN" => t.to_level # t.from_level

\* adjust_difficulty at level 1 on a window whose decrease condition holds.
C9_Witness ==
    /\ Adjusted
    /\ ret.value.from_level = min_difficulty
    /\ should_decrease_difficulty(Window, min_difficulty)
    /\ ret.value.decision = "MAINTAIN"
    /\ difficulty_level = min_difficulty

\* C10: with exactly two attempts, both incorrect, should_decrease_difficulty
\* is true at every level 2..4 and adjust_difficulty yields DECREASE to the
\* level below; with fewer than two attempts should_decrease_difficulty is
\* false.
C10_DecreaseAfterTwo ==
    LET twoWrong == /\ Len(attempts) = 2
                    /\ ~attempts[1].correct
                    /\ ~attempts[2].correct
    IN /\ Len(attempts) < 2 =>
            \A L \in min_difficulty..max_difficulty :
                ~should_decrease_difficulty(Window, L)
       /\ twoWrong =>
            \A L \in (min_difficulty + 1)..max_difficulty :
                should_decrease_difficulty(Window, L)
       /\ (Adjusted /\ twoWrong /\ ret.value.from_level > min_difficulty)
            => /\ ret.value.decision = "DECREASE"
               /\ ret.value.to_level = ret.value.from_level - 1
               /\ difficulty_level = ret.value.from_level - 1

\* Two incorrect attempts at level 3, then a DECREASE to level 2.
C10_Witness ==
    /\ Adjusted
    /\ Len(attempts) = 2
    /\ ~attempts[1].correct /\ ~attempts[2].correct
    /\ Window.total_count < window_size
    /\ ret.value.from_level = 3
    /\ ret.value.decision = "DECREASE"
    /\ ret.value.to_level = 2

\* C11: on an empty attempt log get_recent_performance(n) returns the zero
\* snapshot for every n, calculate_performance_score on it is the neutral 0.5
\* at every level, and adjust_difficulty returns MAINTAIN with the level
\* unchanged.
C11_EmptyWindow ==
    attempts = <<>> =>
        LET zero == [accuracy |-> <<0, 1>>, avg_time |-> <<0, 1>>,
                     correct_count |-> 0, total_count |-> 0]
        IN /\ ret.op = "get_recent_performance" =>
                 ret.raised = "none" /\ ret.value = zero
           /\ \A n \in 0..MaxN, L \in min_difficulty..max_difficulty :
                 /\ get_recent_performance(attempts, n) = zero
                 /\ ~score_raises(get_recent_performance(attempts, n), L)
                 /\ calculate_performance_score(
                        get_recent_performance(attempts, n), L) = <<1, 2>>
           /\ ret.op = "adjust_difficulty" =>
                 /\ ret.raised = "none"
                 /\ ret.value.decision = "MAINTAIN"
                 /\ ret.value.to_level = ret.value.from_level
                 /\ ret.value.from_level = ret.args[1]
                 /\ difficulty_level = ret.args[1]
                 /\ ret.value.performance_score = <<1, 2>>

\* adjust_difficulty has returned on an empty log.
C11_Witness ==
    /\ attempts = <<>>
    /\ Adjusted
    /\ ret.value.recent_accuracy = <<0, 1>>
    /\ Len(transition_history) = 1

\* C14: the attempt log is append-only: record_attempt lengthens it by one
\* entry placed at the end, and no call changes, reorders or removes an
\* entry already in it.
C14_AppendOnly ==
    [][IF ret'.op = "record_attempt"
       THEN /\ Len(attempts') = Len(attempts) + 1
            /\ SubSeq(attempts', 1, Len(attempts)) = attempts
            /\ attempts'[Len(attempts')] =
                  new_attempt(ret'.args[1], ret'.args[2], ret'.args[3])
       ELSE attempts' = attempts]_vars

\* A third attempt, different from the first, has been recorded after
\* queries and an adjust_difficulty call.
C14_Witness ==
    /\ ret.op = "record_attempt"
    /\ Len(attempts) = 3
    /\ attempts[3] # attempts[1]
    /\ Len(transition_history) = 1

\* C15: every adjust_difficulty call that returns appends exactly one
\* Transition Record, the one it returns, with from_level the level on entry
\* and to_level the level on exit; no other step changes the history, and
\* consecutive records chain.
C15_HistoryAppend ==
    [][/\ IF ret'.op = "adjust_difficulty" /\ ret'.raised = "none"
          THEN /\ transition_history' =
                    Append(transition_history, ret'.value)
               /\ ret'.value.from_level = difficulty_level
               /\ ret'.value.to_level = difficulty_level'
          ELSE transition_history' = transition_history
       /\ \A i \in 1..(Len(transition_history') - 1) :
             transition_history'[i + 1].from_level =
                 transition_history'[i].to_level]_vars

\* Two records, the first of which moved the level.
C15_Witness ==
    /\ Adjusted
    /\ Len(transition_history) = 2
    /\ transition_history[2] = ret.value
    /\ transition_history[1].to_level # transition_history[1].from_level
    /\ transition_history[2].from_level = transition_history[1].to_level

\* C16: only adjust_difficulty changes difficulty_level, and one call changes
\* it by at most one step.
C16_LevelFrame ==
    [][/\ ret'.op # "adjust_difficulty" => difficulty_level' = difficulty_level
       /\ difficulty_level' - difficulty_level \in {-1, 0, 1}]_vars

\* adjust_difficulty has lowered the level on a full window.
C16_Witness ==
    /\ Adjusted
    /\ Len(attempts) = 3
    /\ ret.value.decision = "DECREASE"
    /\ difficulty_level = ret.args[1] - 1

RECURSIVE TrailingCorrect(_)
\* The number of consecutive correct attempts at the end of log
TrailingCorrect(log) ==
    IF log = <<>> \/ ~log[Len(log)].correct THEN 0
    ELSE 1 + TrailingCorrect(SubSeq(log, 1, Len(log) - 1))

\* The length of the longest run of consecutive correct attempts in log
LongestRun(log) ==
    LET runs == {k \in 0..Len(log) :
                   \E i \in 1..(Len(log) - k + 1) :
                       \A j \in i..(i + k - 1) : log[j].correct}
    IN CHOOSE k \in runs : \A m \in runs : m <= k

\* C17: current_streak is the number of consecutive correct attempts at the
\* end of the log and best_streak the longest run of correct attempts in it.
C17_StreakFromLog ==
    /\ current_streak = TrailingCorrect(attempts)
    /\ best_streak = LongestRun(attempts)

\* correct, incorrect, correct: the streak restarted after a reset.
C17_Witness ==
    /\ Len(attempts) = 3
    /\ attempts[1].correct /\ ~attempts[2].correct /\ attempts[3].correct
    /\ current_streak = 1
    /\ best_streak = 1

\* The times a caller may have recorded instead, for the last window_size
\* attempts.
TimeVariants == [1..window_size -> Times \cup NegativeTimes]

\* log with the times of its last window_size entries replaced by tv
Retimed(log, tv) ==
    [i \in DOMAIN log |->
        IF i > Len(log) - window_size
        THEN [log[i] EXCEPT !.time_taken = tv[i - (Len(log) - window_size)]]
        ELSE log[i]]

\* C19: with at least 3 attempts recorded the decision depends only on the
\* number of correct answers among the last 3 and on the level: 3 correct
\* give INCREASE (below level 4), 2 give MAINTAIN, 0 or 1 give DECREASE
\* (above level 1); the same log with other times gives the same decision
\* and level.
C19_TimeIndependent ==
    (Adjusted /\ Len(attempts) >= window_size) =>
        LET t == ret.value
            from == t.from_level
            k == CountCorrect(SubSeq(attempts, Len(attempts) - 2,
                                     Len(attempts)))
            expected ==
                IF k = 3
                THEN (IF from < max_difficulty THEN "INCREASE" ELSE "MAINTAIN")
                ELSE IF k = 2 THEN "MAINTAIN"
                ELSE (IF from > min_difficulty THEN "DECREASE" ELSE "MAINTAIN")
        IN /\ t.decision = expected
           /\ \A tv \in TimeVariants :
                 LET d == decide(get_recent_performance(Retimed(attempts, tv),
                                                        window_size), from)
                 IN d.decision = t.decision /\ d.level = t.to_level

\* Three correct but slow attempts still give INCREASE.
C19_Witness ==
    /\ Adjusted
    /\ Len(attempts) = 3
    /\ \A i \in DOMAIN attempts :
          attempts[i].correct /\ attempts[i].time_taken = 70
    /\ ret.value.decision = "INCREASE"

\* C20: current_difficulty, the enum member the puzzle generator reads, has
\* the value difficulty_level after construction and after every
\* adjust_difficulty call.
C20_EnumMatchesLevel ==
    Difficulty[current_difficulty] = difficulty_level

\* adjust_difficulty has raised the level from 2 and the enum followed.
C20_Witness ==
    /\ Adjusted
    /\ ret.value.from_level = 2
    /\ ret.value.to_level = 3
    /\ current_difficulty = "HARD"
    /\ Len(attempts) = 3
    /\ attempts[3].time_taken = 70

\* The rule functions have been evaluated on a snapshot.
Evaluated == ret.op = "evaluate_rules"

\* C13: calculate_performance_score is in [0, 1] for every level, accuracy in
\* [0, 1] and avg_time >= 0, and on a snapshot with attempts it equals
\* accuracy * 0.7 + time_score * 0.3 with time_score 1.0, 0.8, 0.6 or 0.3 by
\* the bands ratio < 0.5, < 1.0, < 1.5, >= 1.5 of avg_time / expected_time.
C13_ScoreRange ==
    Evaluated =>
        LET perf == ret.args[1]
            E == expected_times[ret.args[2]]
            score == ret.value.performance_score
            n == perf.avg_time[1]
            d == perf.avg_time[2]
            band == IF 2 * n < E * d THEN 10
                    ELSE IF n < E * d THEN 8
                    ELSE IF 2 * n < 3 * E * d THEN 6
                    ELSE 3
        IN /\ 0 <= score[1] /\ score[1] <= score[2]
           /\ perf.total_count > 0 =>
                 score[1] * 100 * perf.accuracy[2] =
                     score[2] * (70 * perf.accuracy[1]
                                 + 3 * band * perf.accuracy[2])

\* A perfect, very fast snapshot scores exactly 1.
C13_Witness ==
    /\ Evaluated
    /\ ret.args[1].total_count = 3
    /\ ret.args[1].accuracy = <<1, 1>>
    /\ ret.value.performance_score = <<1, 1>>

\* C18: for no snapshot and no level are should_increase_difficulty and
\* should_decrease_difficulty both true, so checking the decrease first would
\* give the same decision as adjust_difficulty's increase-first order.
C18_Exclusive ==
    Evaluated =>
        LET L == ret.args[2]
            inc == ret.value.should_increase
            dec == ret.value.should_decrease
            decreaseFirst ==
                IF dec
                THEN (IF L > min_difficulty THEN "DECREASE" ELSE "MAINTAIN")
                ELSE IF inc
                THEN (IF L < max_difficulty THEN "INCREASE" ELSE "MAINTAIN")
                ELSE "MAINTAIN"
        IN /\ ~(inc /\ dec)
           /\ ret.value.decision = decreaseFirst

\* Accuracy exactly 0.8 on five fast attempts: the increase condition holds,
\* the decrease condition does not.
C18_Witness ==
    /\ Evaluated
    /\ ret.args[1].accuracy = <<4, 5>>
    /\ ret.args[1].total_count = 5
    /\ ret.value.should_increase
    /\ ~ret.value.should_decrease

\* The attempt indices k <= n of a session of P puzzles after which an
\* adjustment is due.
DueUpTo(n, P) == {k \in 1..n : k % 3 = 0 /\ k < P}

\* C12: in a session of P puzzles adjust_difficulty is invoked exactly after
\* the k-th attempt has been recorded, for the k with k mod 3 = 0 and k < P:
\* the k-th attempt is in the log when it is invoked, it is not invoked after
\* the final puzzle nor at any other index, and at most once per attempt.
C12_AdjustSchedule ==
    [][LET P == session.puzzle_count
           k == Len(attempts)
           due == k % 3 = 0 /\ k < P
       IN /\ transition_history' # transition_history =>
                /\ session.pc = "recorded"
                /\ session.i = k
                /\ due
                /\ attempts' = attempts
                /\ Len(transition_history') = Len(transition_history) + 1
                /\ Len(transition_history') = Cardinality(DueUpTo(k, P))
          /\ (session.pc = "recorded" /\ due) =>
                transition_history' # transition_history
          /\ session'.pc # "recorded" =>
                Len(transition_history') =
                    Cardinality(DueUpTo(Len(attempts'), P))
      ]_vars

\* A full session of six puzzles: one adjustment, after the third attempt,
\* and none after the sixth.
C12_Witness ==
    /\ session.puzzle_count = 6
    /\ session.pc = "finished"
    /\ Len(attempts) = 6
    /\ Len(transition_history) = 1
    /\ transition_history[1].recent_accuracy = <<2, 3>>

\* C21: in a session, the call of adjust_difficulty that makes the m-th
\* transition finds exactly 3 m attempts in the log, so the window it
\* evaluates is the attempts 3 m - 2 .. 3 m: the three recorded since the
\* previous call (or since the start), disjoint from every earlier window.
\* Each of the three was recorded with the engine's level on entry, and the
\* accuracy and average time the call evaluates are those of the three.
C21_WindowSincePrevious ==
    [][transition_history' # transition_history =>
          LET m == Len(transition_history')
              k == Len(attempts)
              since == SubSeq(attempts, 3 * (m - 1) + 1, k)
              made == transition_history'[m]
          IN /\ k = 3 * m
             /\ Len(since) = 3
             /\ \A j \in 1..3 : since[j].difficulty = difficulty_level
             /\ made.from_level = difficulty_level
             /\ made.recent_accuracy = Frac(CountCorrect(since), 3)
             /\ made.recent_avg_time = Frac(SumTimes(since), 3)
      ]_vars

\* Two adjustments in one session, the first raising the level and the
\* second, on three wrong answers recorded at the raised level, lowering it.
C21_Witness ==
    /\ Len(transition_history) = 2
    /\ Len(attempts) >= 6
    /\ transition_history[1].decision = "INCREASE"
    /\ transition_history[2].decision = "DECREASE"
    /\ transition_history[1].recent_accuracy = <<1, 1>>
    /\ transition_history[2].recent_accuracy = <<0, 1>>
    /\ \A j \in 1..3 :
          attempts[j].difficulty = transition_history[1].from_level
    /\ \A j \in 4..6 :
          attempts[j].difficulty = transition_history[2].from_level
    /\ transition_history[2].from_level = transition_history[1].from_level + 1

\* The branch of adjust_difficulty has run on two test results that are
\* both true.
BothTrue == ret.op = "adjust_on_results" /\ ret.args[2] /\ ret.args[3]

====
